---- MODULE Spec2Model ----
(***************************************************************************)
(* Particle field animator of src/src/components/ui/particles.tsx.         *)
(*                                                                         *)
(* Numbers of the component (JavaScript doubles) are fixed-point integers  *)
(* in units of 1/Scale pixel.  Math.random() is a value r/RandDen with     *)
(* 0 <= r < RandDen.  Math.sqrt is the floor square root, which keeps the  *)
(* comparisons `distance < maxDistance` and `distance = 0` exact.          *)
(***************************************************************************)
EXTENDS Integers, Sequences, FiniteSets, TLC

\* The particle animator
VARIABLES phase, props, container, canvas, context, particles, mouse, raf,
          frames, pushed, lastPtr, lastIn, listeners

\* The analytics service and what its providers received, the head written
\* by the SEO component, and a component using useIsMobile
VARIABLES analytics, tracked, seo, mobile, lateCheck

\* The contact form with the calls it made to the email service, and the
\* accessibility menu with the document root it writes to
VARIABLES contact, mail, a11y

animatorVars == <<phase, props, container, canvas, context, particles, mouse,
                  raf, frames, pushed, lastPtr, lastIn, listeners>>

pageVars == <<analytics, tracked, seo, mobile, lateCheck>>

formVars == <<contact, mail, a11y>>

siteVars == <<analytics, tracked, seo, mobile, lateCheck, contact, mail, a11y>>

vars == <<phase, props, container, canvas, context, particles, mouse, raf,
          frames, pushed, lastPtr, lastIn, listeners,
          analytics, tracked, seo, mobile, lateCheck, contact, mail, a11y>>

----------------------------------------------------------------------------
(* Bounds of the model *)

MaxFrames == 1
MaxLoops == 2
MaxDelivered == 3
MaxStale == 2
MaxTime == 2
MaxAttempts == 2

(* Fixed-point resolution of a number, and of Math.random() *)
Scale == 10
RandDen == 100

(* Program constants *)
maxDistance == 200
DefaultStaticity == 30
InvPushFactor == 20
RectLeft == 0
RectTop == 0

DefaultBreakpoint == 768
RateLimitMs == 60000
TickMs == 30000

DefaultCanvasSize == <<300, 150>>
darkColor == "rgba(200, 200, 200, 0.5)"
lightColor == "rgba(150, 50, 75, 0.3)"

StaticityValues == {25, DefaultStaticity}
QuantityValues == {0, 1, 2}
ThemeValues == {"dark", "light"}
ContainerSizes == {<<600, 20>>, <<40, 30>>}
ClientPoints == {<<22, 20>>, <<450, 10>>}
ProviderCounts == {0, 1, 2}
Breakpoints == {640, DefaultBreakpoint}
InnerWidths == {500, 700, 1000}

(* Outcomes of the five Math.random() calls of one particle:
   <<x, y, size, vx, vy>>, each r standing for r/RandDen *)
RandomDraws ==
    { <<50, 50, 0, 50, 50>>,
      <<0, 0, 95, 0, 0>>,
      <<50, 99, 0, 50, 50>> }

----------------------------------------------------------------------------
(* Arithmetic *)

Abs(n) == IF n < 0 THEN -n ELSE n

\* a / b rounded to the nearest grid value, b > 0
RoundDiv(a, b) ==
    IF a >= 0 THEN (2 * a + b) \div (2 * b) ELSE -((2 * (-a) + b) \div (2 * b))

RECURSIVE SqrtIter(_, _, _)
SqrtIter(n, lo, hi) ==
    IF lo >= hi THEN lo
    ELSE LET mid == (lo + hi + 1) \div 2
         IN IF mid * mid <= n THEN SqrtIter(n, mid, hi) ELSE SqrtIter(n, lo, mid - 1)

\* Math.sqrt on the grid
Sqrt(n) == SqrtIter(n, 0, 46340)

\* v / 2 of a pixel count v, on the grid
Half(v) == (v * Scale) \div 2

MaxD == maxDistance * Scale

----------------------------------------------------------------------------
(* Pure steps of the component *)

\* initCanvas: the canvas takes the container's size when all three exist
initCanvas(c, sz, ctx, mounted) ==
    IF mounted /\ c.present /\ ctx
    THEN [c EXCEPT !.w = sz[1], !.h = sz[2]]
    ELSE c

\* A particle whose color ignores the theme
NewParticle_DarkOnly(d, width, height, theme) ==
    [ x     |-> (d[1] * width * Scale) \div RandDen - Half(width),
      y     |-> (d[2] * height * Scale) \div RandDen - Half(height),
      size  |-> (d[3] * 2 * Scale) \div RandDen + Scale,
      vx    |-> (d[4] * 2 * Scale) \div RandDen - Scale,
      vy    |-> (d[5] * 2 * Scale) \div RandDen - Scale,
      color |-> darkColor ]

\* One particle of initParticles from its five random draws
NewParticle(d, width, height, theme) ==
    [ x     |-> (d[1] * width * Scale) \div RandDen - Half(width),
      y     |-> (d[2] * height * Scale) \div RandDen - Half(height),
      size  |-> (d[3] * 2 * Scale) \div RandDen + Scale,
      vx    |-> (d[4] * 2 * Scale) \div RandDen - Scale,
      vy    |-> (d[5] * 2 * Scale) \div RandDen - Scale,
      color |-> IF theme = "dark" THEN darkColor ELSE lightColor ]

\* A regeneration that keeps the old pool and appends to it
initParticles_Append(old, draws, c, theme) ==
    IF c.present
    THEN old \o [i \in 1..Len(draws) |-> NewParticle(draws[i], c.w, c.h, theme)]
    ELSE old

\* initParticles: the pool is emptied, then filled with `quantity` particles
initParticles(old, draws, c, theme) ==
    IF c.present
    THEN [i \in 1..Len(draws) |-> NewParticle(draws[i], c.w, c.h, theme)]
    ELSE <<>>

\* const distance = Math.sqrt(dx * dx + dy * dy)
Dist2(ax, ay, bx, by) == (bx - ax) * (bx - ax) + (by - ay) * (by - ay)

\* A displacement toward the pointer instead of away from it
Push_Toward(dc, distance, s) ==
    IF distance < MaxD
    THEN IF distance = 0 THEN 0
         ELSE -RoundDiv(dc * (MaxD - distance) * s,
                        distance * maxDistance * InvPushFactor)
    ELSE 0

\* A displacement without the linear falloff (force 1 inside the radius)
Push_NoFalloff(dc, distance, s) ==
    IF distance < MaxD
    THEN IF distance = 0 THEN 0
         ELSE RoundDiv(dc * MaxD * s, distance * maxDistance * InvPushFactor)
    ELSE 0

\* A displacement whose direction is not zeroed at distance 0: the full
\* force along the axis
Push_UnguardedZero(dc, distance, s) ==
    IF distance < MaxD
    THEN IF distance = 0 THEN RoundDiv(MaxD * s, maxDistance * InvPushFactor)
         ELSE RoundDiv(dc * (MaxD - distance) * s,
                       distance * maxDistance * InvPushFactor)
    ELSE 0

\* directionX * force * staticity * 0.05 for one axis component dc of the
\* vector from the particle to the pointer; `dc / distance || 0` is 0 at
\* distance 0
Push(dc, distance, s) ==
    IF distance < MaxD
    THEN IF distance = 0 THEN 0
         ELSE RoundDiv(dc * (MaxD - distance) * s,
                       distance * maxDistance * InvPushFactor)
    ELSE 0

\* |direction| * force * staticity * 0.05 as a numerator over
\* maxDistance * InvPushFactor: |direction| is 1, or 0 at distance 0
PushStrength(distance, s) ==
    IF distance < MaxD
    THEN IF distance = 0 THEN 0 ELSE (MaxD - distance) * s
    ELSE 0

\* Bounce test of one axis: the leading edge is beyond the half extent
Beyond(pos, size, extent) ==
    pos + size > Half(extent) \/ pos - size < -Half(extent)

\* A bounce that loses speed, and a pointer step that adds to the velocity
MoveParticle_Momentum(p, m, c, s) ==
    LET x1 == p.x + p.vx
        y1 == p.y + p.vy
        vx1 == IF Beyond(x1, p.size, c.w) THEN -(p.vx \div 2) ELSE p.vx
        vy1 == IF Beyond(y1, p.size, c.h) THEN -(p.vy \div 2) ELSE p.vy
        distance == Sqrt(Dist2(x1, y1, m.x, m.y))
    IN [p EXCEPT !.x = x1 - Push(m.x - x1, distance, s),
                 !.y = y1 - Push(m.y - y1, distance, s),
                 !.vx = vx1 - Push(m.x - x1, distance, s),
                 !.vy = vy1 - Push(m.y - y1, distance, s)]

\* Body of the loop of animate for one particle
MoveParticle(p, m, c, s) ==
    LET x1 == p.x + p.vx
        y1 == p.y + p.vy
        vx1 == IF Beyond(x1, p.size, c.w) THEN -p.vx ELSE p.vx
        vy1 == IF Beyond(y1, p.size, c.h) THEN -p.vy ELSE p.vy
        distance == Sqrt(Dist2(x1, y1, m.x, m.y))
    IN [p EXCEPT !.x = x1 - Push(m.x - x1, distance, s),
                 !.y = y1 - Push(m.y - y1, distance, s),
                 !.vx = vx1,
                 !.vy = vy1]

\* The locals of that loop body: pointer read, dx, dy and the displacement
\* subtracted from the position
\* and the circle drawn for it: arc(translateX, translateY, size, ...) filled
\* with the particle's color
PushOf(p, m, c, s) ==
    LET dx == m.x - (p.x + p.vx)
        dy == m.y - (p.y + p.vy)
        distance == Sqrt(dx * dx + dy * dy)
    IN [ ran |-> TRUE, mx |-> m.x, my |-> m.y, dx |-> dx, dy |-> dy, s |-> s,
         fx |-> Push(dx, distance, s),
         fy |-> Push(dy, distance, s),
         vx0 |-> p.vx, vy0 |-> p.vy,
         arcs |-> 1,
         cx |-> Half(c.w) + p.x + p.vx - Push(dx, distance, s),
         cy |-> Half(c.h) + p.y + p.vy - Push(dy, distance, s),
         fill |-> p.color ]

NoPush == [ran |-> FALSE, mx |-> 0, my |-> 0, dx |-> 0, dy |-> 0, s |-> 0,
           fx |-> 0, fy |-> 0, vx0 |-> 0, vy0 |-> 0, arcs |-> 0, cx |-> 0, cy |-> 0, fill |-> ""]

\* A test that asks for the context only
CanDraw_ContextOnly(ctx, c) == ctx

\* if (context.current && canvasRef.current) of animate
CanDraw(ctx, c) == ctx /\ c.present

\* animate up to requestAnimationFrame: every particle of the pool is moved
\* when context and canvas exist, nothing happens otherwise
AnimatePool(pool, m, c, ctx, s) ==
    IF CanDraw(ctx, c)
    THEN [i \in 1..Len(pool) |-> MoveParticle(pool[i], m, c, s)]
    ELSE pool

\* A loop that draws the first particle of the pool only
AnimateLog_FirstOnly(pool, old, m, c, ctx, s) ==
    IF CanDraw(ctx, c)
    THEN [i \in 1..Len(pool) |->
            IF i = 1 THEN PushOf(pool[i], m, c, s)
            ELSE [PushOf(pool[i], m, c, s) EXCEPT !.arcs = 0]]
    ELSE old

\* What that call of animate did to each particle of the pool
AnimateLog(pool, old, m, c, ctx, s) ==
    IF CanDraw(ctx, c)
    THEN [i \in 1..Len(pool) |-> PushOf(pool[i], m, c, s)]
    ELSE old

\* A frame callback that asks for the next frame only after it has drawn
requestAnimationFrame_Gated(r, s, ctx, c) ==
    IF ctx /\ c.present THEN [r EXCEPT ![s] = @ + 1] ELSE r

\* requestAnimationFrame(animate) at the end of animate, for the loop of the
\* render with staticity s: outside the test of context and canvas
requestAnimationFrame(r, s, ctx, c) == [r EXCEPT ![s] = @ + 1]

\* x and y of onMouseMove / onTouchMove
PointerOffset(client, rectEdge, extent) ==
    client * Scale - rectEdge * Scale - Half(extent)

\* A bounds test that takes the edges as inside
Inside_Closed(x, y, w, h) ==
    x <= Half(w) /\ x >= -Half(w) /\ y <= Half(h) /\ y >= -Half(h)

Inside(x, y, w, h) ==
    x < Half(w) /\ x > -Half(w) /\ y < Half(h) /\ y > -Half(h)

\* A move handler that resets the pointer state when the event is outside
TrackPointer_ZeroOutside(m, pt, sz) ==
    LET x == PointerOffset(pt[1], RectLeft, sz[1])
        y == PointerOffset(pt[2], RectTop, sz[2])
    IN IF Inside(x, y, sz[1], sz[2]) THEN [x |-> x, y |-> y] ELSE [x |-> 0, y |-> 0]

\* Pointer state after a move event at client coordinate pt
TrackPointer(m, pt, sz) ==
    LET x == PointerOffset(pt[1], RectLeft, sz[1])
        y == PointerOffset(pt[2], RectTop, sz[2])
    IN IF Inside(x, y, sz[1], sz[2]) THEN [x |-> x, y |-> y] ELSE m

\* Number of pending animation-frame callbacks of the component
RECURSIVE SumOver(_, _)
SumOver(f, S) ==
    IF S = {} THEN 0
    ELSE LET e == CHOOSE e \in S : TRUE IN f[e] + SumOver(f, S \ {e})

Pending == SumOver(raf, StaticityValues)

\* The event as delivered: kind of listener, center-relative offset of the
\* client coordinate, and whether that lay strictly inside the container
PointerEvent(kind, pt) ==
    LET x == pt[1] * Scale - (container[1] * Scale) \div 2
        y == pt[2] * Scale - (container[2] * Scale) \div 2
    IN [ kind |-> kind, x |-> x, y |-> y,
         inside |-> /\ 2 * Abs(x) < container[1] * Scale
                    /\ 2 * Abs(y) < container[2] * Scale ]

NoEvent == [kind |-> "none", x |-> 0, y |-> 0, inside |-> FALSE]
ResetEvent == [kind |-> "reset", x |-> 0, y |-> 0, inside |-> FALSE]

\* Last in-container offset observed since the last reset, if any
Observed(e, old) ==
    IF e.inside THEN [seen |-> TRUE, x |-> e.x, y |-> e.y] ELSE old

\* Props of <SEO>: given holds the names of the props the caller passed
NoProps == [given |-> {}, robots |-> "", noIndex |-> FALSE]

SEOPropsValues ==
    { [given |-> g,
       robots |-> IF "robots" \in g THEN r ELSE "",
       noIndex |-> IF "noIndex" \in g THEN n ELSE FALSE] :
      g \in SUBSET {"robots", "noIndex"},
      r \in {"", "noindex", "index, follow"},
      n \in BOOLEAN }

\* The props NotFound passes: noIndex={true} and no robots
NotFoundProps == [given |-> {"noIndex"}, robots |-> "", noIndex |-> TRUE]

\* const metaRobots = robots || (noIndex ? ... : ...) after the defaults of
\* the destructuring, robots = 'index, follow' and noIndex = false
metaRobots(p) ==
    LET robots == IF "robots" \in p.given THEN p.robots ELSE "index, follow"
        noIndex == IF "noIndex" \in p.given THEN p.noIndex ELSE FALSE
    IN IF robots # "" THEN robots
       ELSE IF noIndex THEN "noindex, nofollow" ELSE "index, follow"

\* window.innerWidth < breakpoint of checkMobile
checkMobile(innerWidth, breakpoint) == innerWidth < breakpoint

\* The events the effect listens to: resize, mousemove, touchmove and
\* touchend on window, mouseleave on document
EventTypes == {"resize", "mousemove", "touchmove", "touchend", "mouseleave"}

\* The five addEventListener calls of one run of the effect
AddListeners(l) == [e \in EventTypes |-> l[e] + 1]

\* A cleanup that leaves the touchend listener in place
RemoveListeners_KeepsTouchEnd(l) ==
    [e \in EventTypes |-> IF l[e] > 0 /\ e # "touchend" THEN l[e] - 1 ELSE l[e]]

\* The five removeEventListener calls of the cleanup of that run
RemoveListeners(l) == [e \in EventTypes |-> IF l[e] > 0 THEN l[e] - 1 ELSE l[e]]

\* formData of the contact form; the email is a sequence of characters
EmptyForm == [name |-> "", email |-> <<>>, subject |-> "", message |-> ""]

FieldNames == {"name", "email", "subject", "message"}

TextValues == {"", "Hello"}

EmailValues == { <<>>, <<"a", "n", "n">>, <<"a", "@", "b", ".", "i", "o">> }

\* z.string().email(): a local part, an @, and a domain with a dot inside
IsEmail(e) ==
    \E i \in 1..Len(e) :
        /\ e[i] = "@"
        /\ i > 1
        /\ \A k \in 1..Len(e) : e[k] = "@" => k = i
        /\ \E j \in (i + 2)..(Len(e) - 1) : e[j] = "."

\* The fields formSchema.parse rejects, each with a message for formErrors
SchemaErrors(f) ==
    { n \in {"name", "subject", "message"} : f[n] = "" }
    \cup (IF f.email = <<>> \/ ~IsEmail(f.email) THEN {"email"} ELSE {})

\* localStorage.getItem('lastFormSubmission'): null, or the time stored
NoSubmission == [stored |-> FALSE, at |-> 0]

\* A rate limit that never applies
isRateLimited_Never(last, now) == FALSE

\* isRateLimited at time now, in ms
isRateLimited(last, now) ==
    IF ~last.stored THEN FALSE ELSE now - last.at < RateLimitMs

\* useState defaults of the accessibility menu
DefaultSettings ==
    [fontSize |-> 100, highContrast |-> FALSE, highlightLinks |-> FALSE,
     readableFont |-> FALSE]

\* The CSS class each toggle writes to the document root
ClassOf ==
    [highContrast |-> "high-contrast", highlightLinks |-> "highlight-links",
     readableFont |-> "readable-font"]

ToggleNames == {"highContrast", "highlightLinks", "readableFont"}

\* classList.toggle(c)
ClassToggle(classes, c) == IF c \in classes THEN classes \ {c} ELSE classes \cup {c}

----------------------------------------------------------------------------
(* State *)

Init ==
    /\ phase = "new"
    /\ props \in { [quantity |-> q, staticity |-> DefaultStaticity, theme |-> "dark"] :
                   q \in QuantityValues }
    /\ container \in ContainerSizes
    /\ canvas = [present |-> FALSE, w |-> DefaultCanvasSize[1], h |-> DefaultCanvasSize[2]]
    /\ context = FALSE
    /\ particles = <<>>
    /\ mouse = [x |-> 0, y |-> 0]
    /\ raf = [s \in StaticityValues |-> 0]
    /\ frames = 0
    /\ pushed = <<>>
    /\ lastPtr = NoEvent
    /\ lastIn = [seen |-> FALSE, x |-> 0, y |-> 0]
    /\ listeners = [e \in EventTypes |-> 0]
    /\ analytics = [initialized |-> FALSE, enabled |-> FALSE, consentGiven |-> FALSE,
                    providers |-> 0, stored |-> "null"]
    /\ tracked = [count |-> 0, optOut |-> FALSE]
    /\ seo = [rendered |-> FALSE, props |-> NoProps, metaRobots |-> ""]
    /\ mobile = [phase |-> "new", innerWidth |-> 1000,
                 breakpoint |-> DefaultBreakpoint, isMobile |-> FALSE,
                 timer |-> FALSE, stale |-> [b \in Breakpoints |-> 0]]
    /\ lateCheck = FALSE
    /\ contact = [phase |-> "new", formData |-> EmptyForm, formStatus |-> "idle",
                  formErrors |-> {}, emailjsReady |-> FALSE,
                  lastFormSubmission |-> NoSubmission, now |-> 0, sending |-> FALSE]
    /\ mail = [attempts |-> 0, sent |-> 0, last |-> "none", lastAt |-> 0, prevAt |-> 0]
    /\ a11y = [mounted |-> FALSE, state |-> DefaultSettings, rendered |-> DefaultSettings,
               root |-> [fontSize |-> 100, classes |-> {}], animationsEnabled |-> TRUE]

\* The effect of lines 31-107 run for props p with the canvas element cv:
\* getContext gives a context (g) or null
RunEffect(p, cv, g) ==
    \E draws \in [1..p.quantity -> RandomDraws] :
        LET c1 == initCanvas(cv, container, g, TRUE)
            pool == initParticles(particles, draws, c1, p.theme)
        IN /\ context' = g
           /\ canvas' = c1
           /\ particles' = AnimatePool(pool, mouse, c1, g, p.staticity)
           /\ pushed' = AnimateLog(pool, [i \in 1..Len(pool) |-> NoPush],
                                   mouse, c1, g, p.staticity)
           /\ raf' = requestAnimationFrame(raf, p.staticity, g, c1)

\* First render and commit
Mount ==
    /\ phase = "new"
    /\ phase' = "mounted"
    /\ \E g \in BOOLEAN : RunEffect(props, [canvas EXCEPT !.present = TRUE], g)
    /\ UNCHANGED <<props, container, mouse, frames, lastPtr, lastIn>>
    /\ listeners' = AddListeners(listeners)
    /\ UNCHANGED siteVars

\* Props after a re-render that changes one dependency of the effect.  ease
\* and refresh are read nowhere but in the dependency list, so a change of
\* one of them re-runs the effect with the values it reads unchanged
NextProps(p) ==
    { [p EXCEPT !.quantity = q] : q \in QuantityValues \ {p.quantity} }
    \cup { [p EXCEPT !.staticity = s] : s \in StaticityValues \ {p.staticity} }
    \cup { [p EXCEPT !.theme = t] : t \in ThemeValues \ {p.theme} }
    \cup { p }

\* Re-render with a changed dependency: cleanup, then the effect again
PropChange ==
    /\ phase = "mounted"
    /\ Pending < MaxLoops
    /\ \E p \in NextProps(props) :
         /\ props' = p
         /\ \E g \in (IF context THEN {TRUE} ELSE BOOLEAN) : RunEffect(p, canvas, g)
    /\ UNCHANGED <<phase, container, mouse, frames, lastPtr, lastIn>>
    /\ listeners' = AddListeners(RemoveListeners(listeners))
    /\ UNCHANGED siteVars

\* A resize that regenerates the pool before the canvas is sized
ResizedPool_StaleSize(sz, draws) ==
    initParticles(particles, draws, canvas, props.theme)

\* resizeCanvas with the canvas sized before the pool is regenerated
ResizedPool(sz, draws) ==
    initParticles(particles, draws, initCanvas(canvas, sz, context, TRUE), props.theme)

\* The window takes size sz and the resize listener runs
WindowResize ==
    /\ phase = "mounted"
    /\ listeners["resize"] > 0
    /\ \E sz \in ContainerSizes :
         /\ container' = sz
         /\ IF canvas.present /\ context
            THEN \E draws \in [1..props.quantity -> RandomDraws] :
                   /\ canvas' = initCanvas(canvas, sz, context, TRUE)
                   /\ particles' = ResizedPool(sz, draws)
                   /\ pushed' = [i \in 1..Len(particles') |-> NoPush]
            ELSE UNCHANGED <<canvas, particles, pushed>>
    /\ UNCHANGED <<phase, props, context, mouse, raf, frames, lastPtr, lastIn>>
    /\ UNCHANGED listeners
    /\ UNCHANGED siteVars

\* A pending animate callback (of the render with staticity s) runs and
\* requests the next frame
Frame ==
    \E s \in StaticityValues :
        /\ raf[s] > 0
        /\ \/ /\ CanDraw(context, canvas)
              /\ frames < MaxFrames
              /\ frames' = frames + 1
              /\ particles' = AnimatePool(particles, mouse, canvas, context, s)
              /\ pushed' = AnimateLog(particles, pushed, mouse, canvas, context, s)
           \/ /\ ~CanDraw(context, canvas)
              /\ UNCHANGED <<frames, particles, pushed>>
        /\ raf' = requestAnimationFrame([raf EXCEPT ![s] = @ - 1], s, context, canvas)
        /\ UNCHANGED <<phase, props, container, canvas, context, mouse,
                       lastPtr, lastIn>>
        /\ UNCHANGED listeners
        /\ UNCHANGED siteVars

\* Pointer state after onMouseLeave
ResetPointer(m) == [x |-> 0, y |-> 0]

\* onMouseMove for a mousemove at client coordinate pt; with log, the event
\* is also recorded in the history variables lastPtr and lastIn
MouseMove(log) ==
    /\ phase = "mounted"
    /\ listeners["mousemove"] > 0
    /\ \E pt \in ClientPoints :
         /\ mouse' = TrackPointer(mouse, pt, container)
         /\ lastPtr' = IF log THEN PointerEvent("move", pt) ELSE lastPtr
         /\ lastIn' = IF log THEN Observed(PointerEvent("move", pt), lastIn) ELSE lastIn
    /\ UNCHANGED <<phase, props, container, canvas, context, particles, raf,
                   frames, pushed>>
    /\ UNCHANGED listeners
    /\ UNCHANGED siteVars

\* onTouchMove for a touchmove whose e.touches[0] is at client coordinate pt
TouchMove(log) ==
    /\ phase = "mounted"
    /\ listeners["touchmove"] > 0
    /\ \E pt \in ClientPoints :
         /\ mouse' = TrackPointer(mouse, pt, container)
         /\ lastPtr' = IF log THEN PointerEvent("move", pt) ELSE lastPtr
         /\ lastIn' = IF log THEN Observed(PointerEvent("move", pt), lastIn) ELSE lastIn
    /\ UNCHANGED <<phase, props, container, canvas, context, particles, raf,
                   frames, pushed>>
    /\ UNCHANGED listeners
    /\ UNCHANGED siteVars

\* onMouseLeave for a mouseleave on the document
MouseLeave(log) ==
    /\ phase = "mounted"
    /\ listeners["mouseleave"] > 0
    /\ mouse' = ResetPointer(mouse)
    /\ lastPtr' = IF log THEN ResetEvent ELSE lastPtr
    /\ lastIn' = IF log THEN [seen |-> FALSE, x |-> 0, y |-> 0] ELSE lastIn
    /\ UNCHANGED <<phase, props, container, canvas, context, particles, raf,
                   frames, pushed>>
    /\ UNCHANGED listeners
    /\ UNCHANGED siteVars

\* onMouseLeave for a touchend on the window (the same listener)
TouchEnd(log) ==
    /\ phase = "mounted"
    /\ listeners["touchend"] > 0
    /\ mouse' = ResetPointer(mouse)
    /\ lastPtr' = IF log THEN ResetEvent ELSE lastPtr
    /\ lastIn' = IF log THEN [seen |-> FALSE, x |-> 0, y |-> 0] ELSE lastIn
    /\ UNCHANGED <<phase, props, container, canvas, context, particles, raf,
                   frames, pushed>>
    /\ UNCHANGED listeners
    /\ UNCHANGED siteVars

onMouseMove == MouseMove(FALSE)
onTouchMove == TouchMove(FALSE)
onMouseLeave == MouseLeave(FALSE)
onTouchEnd == TouchEnd(FALSE)

onMouseMoveLogged == MouseMove(TRUE)
onTouchMoveLogged == TouchMove(TRUE)
onMouseLeaveLogged == MouseLeave(TRUE)
onTouchEndLogged == TouchEnd(TRUE)

\* Callbacks still pending after the cleanup of the effect
AfterCleanup(r) == r

\* Unmount: the cleanup removes the five listeners; the refs are cleared
Unmount ==
    /\ phase = "mounted"
    /\ phase' = "unmounted"
    /\ canvas' = [canvas EXCEPT !.present = FALSE]
    /\ raf' = AfterCleanup(raf)
    /\ UNCHANGED <<props, container, context, particles, mouse, frames, pushed,
                   lastPtr, lastIn>>
    /\ listeners' = RemoveListeners(listeners)
    /\ UNCHANGED siteVars

Next ==
    \/ Mount
    \/ PropChange
    \/ WindowResize
    \/ Frame
    \/ onMouseMove
    \/ onTouchMove
    \/ onMouseLeave
    \/ onTouchEnd
    \/ Unmount

Spec == Init /\ [][Next]_vars

\* The program with every pointer event recorded in lastPtr and lastIn, for
\* the properties of the pointer state.  animate runs here as part of the
\* effect; the pending frame callbacks are left out, since animate reads
\* mouse and writes nothing but the particles (see Frame).
NextLogged ==
    \/ Mount
    \/ PropChange
    \/ WindowResize
    \/ onMouseMoveLogged
    \/ onTouchMoveLogged
    \/ onMouseLeaveLogged
    \/ onTouchEndLogged
    \/ Unmount

SpecPointer == Init /\ [][NextLogged]_vars

\* The animator with no pointer input: the pointer state stays (0,0)
NextLoop ==
    \/ Mount
    \/ PropChange
    \/ WindowResize
    \/ Frame
    \/ Unmount

SpecLoop == Init /\ [][NextLoop]_vars

\* A pending animate callback runs, with no bound on the number of frames
FrameUnbounded ==
    \E s \in StaticityValues :
        /\ raf[s] > 0
        /\ particles' = AnimatePool(particles, mouse, canvas, context, s)
        /\ pushed' = AnimateLog(particles, pushed, mouse, canvas, context, s)
        /\ raf' = requestAnimationFrame([raf EXCEPT ![s] = @ - 1], s, context, canvas)
        /\ UNCHANGED <<phase, props, container, canvas, context, mouse, frames,
                       lastPtr, lastIn, listeners>>
        /\ UNCHANGED siteVars

\* The animator left to run after its mount: the browser runs every pending
\* frame callback, so the frame loop is weakly fair
NextBounce ==
    \/ Mount
    \/ FrameUnbounded

SpecBounce == Init /\ [][NextBounce]_vars /\ WF_vars(FrameUnbounded)

----------------------------------------------------------------------------
(* AnalyticsService of src/unnamed/part_000 *)

\* A canTrack that does not ask for consent
canTrack_IgnoresConsent(initialized, enabled, consentGiven) ==
    initialized /\ enabled

\* canTrack: initialized, enabled, and the user has given consent
canTrack(initialized, enabled, consentGiven) ==
    initialized /\ enabled /\ consentGiven

\* Provider calls after trackEvent or trackPageView on service a: one per
\* provider when canTrack, none otherwise
Deliver(a, n) ==
    IF canTrack(a.initialized, a.enabled, a.consentGiven) THEN n + a.providers ELSE n

\* checkConsent: readable says whether localStorage.getItem returns or throws
checkConsent(a, readable) ==
    IF readable
    THEN [a EXCEPT !.consentGiven = (a.stored = "true"), !.enabled = TRUE]
    ELSE [a EXCEPT !.consentGiven = FALSE, !.enabled = FALSE]

\* init(providers) with NODE_ENV = env and a providers array of length n
AnalyticsInit ==
    /\ tracked.count < MaxDelivered
    /\ \E env \in {"production", "development"}, n \in ProviderCounts,
          readable \in BOOLEAN :
         IF analytics.initialized
         THEN UNCHANGED <<analytics, tracked>>
         ELSE LET a1 == [analytics EXCEPT
                           !.providers = IF env = "production" THEN n ELSE 1,
                           !.initialized = TRUE]
                  a2 == checkConsent(a1, readable)
              IN /\ analytics' = a2
                 /\ tracked' = [tracked EXCEPT !.count =
                                  IF a2.enabled /\ a2.consentGiven
                                  THEN Deliver(a2, @) ELSE @]
    /\ UNCHANGED <<seo, mobile, lateCheck>>
    /\ UNCHANGED formVars
    /\ UNCHANGED animatorVars

\* trackEvent(eventType, data)
trackEvent ==
    /\ tracked.count < MaxDelivered
    /\ tracked' = [tracked EXCEPT !.count = Deliver(analytics, @)]
    /\ UNCHANGED <<analytics, seo, mobile, lateCheck>>
    /\ UNCHANGED formVars
    /\ UNCHANGED animatorVars

\* trackPageView(path, title, data)
trackPageView ==
    /\ tracked.count < MaxDelivered
    /\ tracked' = [tracked EXCEPT !.count = Deliver(analytics, @)]
    /\ UNCHANGED <<analytics, seo, mobile, lateCheck>>
    /\ UNCHANGED formVars
    /\ UNCHANGED animatorVars

\* setConsent(consent); writable says whether localStorage.setItem returns
\* or throws (the exception is caught)
setConsent ==
    /\ \E consent \in BOOLEAN, writable \in BOOLEAN :
         analytics' = [analytics EXCEPT
                         !.consentGiven = consent,
                         !.stored = IF writable
                                    THEN (IF consent THEN "true" ELSE "false")
                                    ELSE @]
    /\ UNCHANGED <<tracked, seo, mobile, lateCheck>>
    /\ UNCHANGED formVars
    /\ UNCHANGED animatorVars

\* setEnabled(enabled); tracked.optOut records that the last call was
\* setEnabled(false)
setEnabled ==
    /\ \E e \in BOOLEAN :
         /\ analytics' = [analytics EXCEPT !.enabled = e]
         /\ tracked' = [tracked EXCEPT !.optOut = ~e]
    /\ UNCHANGED <<seo, mobile, lateCheck>>
    /\ UNCHANGED formVars
    /\ UNCHANGED animatorVars


----------------------------------------------------------------------------
(* SEO of src/src/components/SEO.tsx *)

\* A page renders <SEO> with props p
RenderSEO ==
    /\ \E p \in SEOPropsValues :
         seo' = [rendered |-> TRUE, props |-> p, metaRobots |-> metaRobots(p)]
    /\ UNCHANGED <<analytics, tracked, mobile, lateCheck>>
    /\ UNCHANGED formVars
    /\ UNCHANGED animatorVars

\* The NotFound page renders its <SEO>
RenderNotFound ==
    /\ seo' = [rendered |-> TRUE, props |-> NotFoundProps,
               metaRobots |-> metaRobots(NotFoundProps)]
    /\ UNCHANGED <<analytics, tracked, mobile, lateCheck>>
    /\ UNCHANGED formVars
    /\ UNCHANGED animatorVars

\* The pages of the site: their head and what they report to analytics
NextPage ==
    \/ AnalyticsInit
    \/ trackEvent
    \/ trackPageView
    \/ setConsent
    \/ setEnabled
    \/ RenderSEO
    \/ RenderNotFound

SpecPage == Init /\ [][NextPage]_vars

----------------------------------------------------------------------------
(* useIsMobile of src/src/hooks/use-mobile.ts with debounce *)

\* Timeouts of debounced handlers whose listener has been removed
StaleTotal == SumOver(mobile.stale, Breakpoints)

\* Mount of a component calling useIsMobile(bp): the effect runs checkMobile
\* and adds the debounced resize listener
MountHook ==
    /\ mobile.phase = "new"
    /\ \E bp \in Breakpoints :
         mobile' = [mobile EXCEPT !.phase = "mounted",
                                  !.breakpoint = bp,
                                  !.isMobile = checkMobile(mobile.innerWidth, bp)]
    /\ UNCHANGED <<analytics, tracked, seo, lateCheck>>
    /\ UNCHANGED formVars
    /\ UNCHANGED animatorVars

\* Re-render with another breakpoint: the cleanup removes the listener, a
\* timeout it had set stays scheduled, and the effect runs again with a new
\* debounced handler
BreakpointChange ==
    /\ mobile.phase = "mounted"
    /\ mobile.timer => StaleTotal < MaxStale
    /\ \E bp \in Breakpoints \ {mobile.breakpoint} :
         mobile' = [mobile EXCEPT
                      !.breakpoint = bp,
                      !.isMobile = checkMobile(mobile.innerWidth, bp),
                      !.timer = FALSE,
                      !.stale = IF mobile.timer
                                THEN [@ EXCEPT ![mobile.breakpoint] = @ + 1]
                                ELSE @]
    /\ UNCHANGED <<analytics, tracked, seo, lateCheck>>
    /\ UNCHANGED formVars
    /\ UNCHANGED animatorVars

\* The window is resized to width w; while the listener is attached the
\* debounced handler clears its timeout, if any, and sets a new one
handleResize ==
    /\ \E w \in InnerWidths :
         mobile' = [mobile EXCEPT
                      !.innerWidth = w,
                      !.timer = IF mobile.phase = "mounted" THEN TRUE ELSE @]
    /\ UNCHANGED <<analytics, tracked, seo, lateCheck>>
    /\ UNCHANGED formVars
    /\ UNCHANGED animatorVars

\* The timeout of the current debounced handler fires: checkMobile runs
TimerFires ==
    /\ mobile.timer
    /\ mobile' = [mobile EXCEPT
                    !.timer = FALSE,
                    !.isMobile = IF mobile.phase = "mounted"
                                 THEN checkMobile(mobile.innerWidth, mobile.breakpoint)
                                 ELSE @]
    /\ lateCheck' = (lateCheck \/ mobile.phase = "unmounted")
    /\ UNCHANGED <<analytics, tracked, seo>>
    /\ UNCHANGED formVars
    /\ UNCHANGED animatorVars

\* The timeout of a handler of an earlier effect fires: its checkMobile runs
\* with the breakpoint of that render
StaleTimerFires ==
    /\ \E b \in Breakpoints :
         /\ mobile.stale[b] > 0
         /\ mobile' = [mobile EXCEPT
                         !.stale = [@ EXCEPT ![b] = @ - 1],
                         !.isMobile = IF mobile.phase = "mounted"
                                      THEN checkMobile(mobile.innerWidth, b)
                                      ELSE @]
    /\ lateCheck' = (lateCheck \/ mobile.phase = "unmounted")
    /\ UNCHANGED <<analytics, tracked, seo>>
    /\ UNCHANGED formVars
    /\ UNCHANGED animatorVars

\* Unmount: the cleanup removes the resize listener
UnmountHook ==
    /\ mobile.phase = "mounted"
    /\ mobile' = [mobile EXCEPT !.phase = "unmounted"]
    /\ UNCHANGED <<analytics, tracked, seo, lateCheck>>
    /\ UNCHANGED formVars
    /\ UNCHANGED animatorVars

NextMobile ==
    \/ MountHook
    \/ BreakpointChange
    \/ handleResize
    \/ TimerFires
    \/ StaleTimerFires
    \/ UnmountHook

SpecMobile == Init /\ [][NextMobile]_vars

----------------------------------------------------------------------------
(* ContactPage of src/src/pages/ContactPage.tsx *)

\* Date.now() of the contact form, in ms
NowMs == contact.now * TickMs

\* A submit event can reach the form: the inputs and the button are disabled
\* while submitting. The button is also disabled while EmailJS is not ready;
\* the handler makes that check itself, so the model lets the event through.
SubmitEnabled == contact.formStatus # "submitting"

\* Mount: the effect initializes EmailJS, which may throw
ContactMount ==
    /\ contact.phase = "new"
    /\ \E ready \in BOOLEAN :
         contact' = [contact EXCEPT !.phase = "mounted", !.emailjsReady = ready]
    /\ UNCHANGED <<mail, a11y>>
    /\ UNCHANGED pageVars
    /\ UNCHANGED animatorVars

\* handleChange: the user edits a field (the inputs are disabled while
\* submitting)
handleChange ==
    /\ contact.phase = "mounted"
    /\ contact.formStatus # "submitting"
    /\ \E n \in FieldNames :
         \E v \in (IF n = "email" THEN EmailValues ELSE TextValues) :
             contact' = [contact EXCEPT !.formData[n] = v,
                                        !.formErrors = @ \ {n}]
    /\ UNCHANGED <<mail, a11y>>
    /\ UNCHANGED pageVars
    /\ UNCHANGED animatorVars

\* handleSubmit up to the await of emailjs.send
handleSubmit ==
    /\ contact.phase = "mounted"
    /\ SubmitEnabled
    /\ mail.attempts < MaxAttempts
    /\ LET errs == SchemaErrors(contact.formData)
           send == /\ errs = {}
                   /\ ~isRateLimited(contact.lastFormSubmission, NowMs)
                   /\ contact.emailjsReady
       IN /\ contact' = [contact EXCEPT
                           !.formErrors = errs,
                           !.formStatus = IF send THEN "submitting" ELSE @,
                           !.sending = IF send THEN TRUE ELSE @]
          /\ mail' = [mail EXCEPT
                        !.attempts = @ + 1,
                        !.sent = IF send THEN @ + 1 ELSE @,
                        !.last = IF send THEN "sent"
                                 ELSE IF errs # {} THEN "invalid"
                                 ELSE IF isRateLimited(contact.lastFormSubmission, NowMs)
                                      THEN "limited"
                                 ELSE "notReady",
                        !.prevAt = IF send THEN mail.lastAt ELSE @,
                        !.lastAt = IF send THEN NowMs ELSE @]
    /\ UNCHANGED a11y
    /\ UNCHANGED pageVars
    /\ UNCHANGED animatorVars

\* emailjs.send resolves: the time is stored, the form reset
SendResolves ==
    /\ contact.sending
    /\ contact' = [contact EXCEPT
                     !.sending = FALSE,
                     !.lastFormSubmission = [stored |-> TRUE, at |-> NowMs],
                     !.formData = EmptyForm,
                     !.formStatus = "success"]
    /\ UNCHANGED <<mail, a11y>>
    /\ UNCHANGED pageVars
    /\ UNCHANGED animatorVars

\* emailjs.send rejects: the catch block
SendRejects ==
    /\ contact.sending
    /\ contact' = [contact EXCEPT !.sending = FALSE, !.formStatus = "error"]
    /\ UNCHANGED <<mail, a11y>>
    /\ UNCHANGED pageVars
    /\ UNCHANGED animatorVars

\* The 3 s timer of the status effect sets the status back to idle
StatusTimer ==
    /\ contact.formStatus \in {"success", "error"}
    /\ contact' = [contact EXCEPT !.formStatus = "idle"]
    /\ UNCHANGED <<mail, a11y>>
    /\ UNCHANGED pageVars
    /\ UNCHANGED animatorVars

\* Time passes
Tick ==
    /\ contact.now < MaxTime
    /\ contact' = [contact EXCEPT !.now = @ + 1]
    /\ UNCHANGED <<mail, a11y>>
    /\ UNCHANGED pageVars
    /\ UNCHANGED animatorVars

NextContact ==
    \/ ContactMount
    \/ handleChange
    \/ handleSubmit
    \/ SendResolves
    \/ SendRejects
    \/ StatusTimer
    \/ Tick

SpecContact == Init /\ [][NextContact]_vars

----------------------------------------------------------------------------
(* AccessibilityMenu of src/src/components/AccessibilityMenu.tsx *)

\* The menu mounts: useState gives the defaults, the document root is as
\* it was left
MenuMount ==
    /\ ~a11y.mounted
    /\ a11y' = [a11y EXCEPT !.mounted = TRUE,
                            !.state = DefaultSettings,
                            !.rendered = DefaultSettings]
    /\ UNCHANGED <<contact, mail>>
    /\ UNCHANGED pageVars
    /\ UNCHANGED animatorVars

MenuUnmount ==
    /\ a11y.mounted
    /\ a11y' = [a11y EXCEPT !.mounted = FALSE]
    /\ UNCHANGED <<contact, mail>>
    /\ UNCHANGED pageVars
    /\ UNCHANGED animatorVars

\* Re-render: the handlers now close over the current state
MenuRender ==
    /\ a11y.mounted
    /\ a11y.rendered # a11y.state
    /\ a11y' = [a11y EXCEPT !.rendered = a11y.state]
    /\ UNCHANGED <<contact, mail>>
    /\ UNCHANGED pageVars
    /\ UNCHANGED animatorVars

\* toggleHighContrast, toggleHighlightLinks, toggleReadableFont: the state
\* is set to the negation of the value of the last render, the class of the
\* root is toggled
toggleSetting ==
    /\ a11y.mounted
    /\ \E n \in ToggleNames :
         a11y' = [a11y EXCEPT
                    !.state[n] = ~a11y.rendered[n],
                    !.root.classes = ClassToggle(@, ClassOf[n])]
    /\ UNCHANGED <<contact, mail>>
    /\ UNCHANGED pageVars
    /\ UNCHANGED animatorVars

increaseFontSize ==
    /\ a11y.mounted
    /\ a11y.rendered.fontSize < 150
    /\ a11y' = [a11y EXCEPT !.state.fontSize = a11y.rendered.fontSize + 10,
                            !.root.fontSize = a11y.rendered.fontSize + 10]
    /\ UNCHANGED <<contact, mail>>
    /\ UNCHANGED pageVars
    /\ UNCHANGED animatorVars

decreaseFontSize ==
    /\ a11y.mounted
    /\ a11y.rendered.fontSize > 90
    /\ a11y' = [a11y EXCEPT !.state.fontSize = a11y.rendered.fontSize - 10,
                            !.root.fontSize = a11y.rendered.fontSize - 10]
    /\ UNCHANGED <<contact, mail>>
    /\ UNCHANGED pageVars
    /\ UNCHANGED animatorVars

\* toggleAnimations of the animation context
toggleAnimations ==
    /\ a11y.mounted
    /\ a11y' = [a11y EXCEPT !.animationsEnabled = ~@]
    /\ UNCHANGED <<contact, mail>>
    /\ UNCHANGED pageVars
    /\ UNCHANGED animatorVars

resetSettings ==
    /\ a11y.mounted
    /\ a11y' = [a11y EXCEPT
                  !.state = DefaultSettings,
                  !.animationsEnabled = TRUE,
                  !.root = [fontSize |-> 100,
                            classes |-> @.classes \ {ClassOf[n] : n \in ToggleNames}]]
    /\ UNCHANGED <<contact, mail>>
    /\ UNCHANGED pageVars
    /\ UNCHANGED animatorVars

NextMenu ==
    \/ MenuMount
    \/ MenuUnmount
    \/ MenuRender
    \/ toggleSetting
    \/ increaseFontSize
    \/ decreaseFontSize
    \/ toggleAnimations
    \/ resetSettings

SpecMenu == Init /\ [][NextMenu]_vars

----------------------------------------------------------------------------
(* Properties *)

Zero == [x |-> 0, y |-> 0]

\* Distance of the last pointer-interaction step of particle i
LoggedDistance(i) == Sqrt(pushed[i].dx * pushed[i].dx + pushed[i].dy * pushed[i].dy)

\* C1: once the pool has been generated (mount, resize or a changed
\* dependency) it holds exactly `quantity` particles, after any frames and
\* any later regeneration.
C1_PoolSize ==
    phase # "new" => Len(particles) = props.quantity

\* A pool of two particles regenerated by a changed staticity and then moved
\* by a frame of the loop started before that change.
C1_Witness ==
    /\ phase = "mounted"
    /\ Pending = 2
    /\ frames = 1
    /\ Len(particles) = 2
    /\ pushed[1].ran
    /\ pushed[1].s # props.staticity

\* C2: every particle stays within its own radius of the container edges:
\* |x| <= width/2 + size and |y| <= height/2 + size.
C2_WithinBounds ==
    \A i \in 1..Len(particles) :
        /\ Abs(particles[i].x) <= Half(canvas.w) + particles[i].size
        /\ Abs(particles[i].y) <= Half(canvas.h) + particles[i].size

\* C3: with the pointer state at (0,0) the pointer-interaction step of a
\* frame displaces no particle.
C3_NoPushAtZero ==
    \A i \in 1..Len(pushed) :
        (pushed[i].ran /\ pushed[i].mx = 0 /\ pushed[i].my = 0)
            => (pushed[i].fx = 0 /\ pushed[i].fy = 0)

\* C4: after unmount no animation-frame callback of the component is
\* pending.
C4_NoFrameAfterUnmount ==
    phase = "unmounted" => Pending = 0

\* Squared magnitude of the displacement the step of particle i would apply
\* under staticity s, all else as logged
PushMag2(i, s) ==
    Push(pushed[i].dx, LoggedDistance(i), s) * Push(pushed[i].dx, LoggedDistance(i), s)
    + Push(pushed[i].dy, LoggedDistance(i), s) * Push(pushed[i].dy, LoggedDistance(i), s)

\* C5: for a particle at distance 0 < d < 200 from the pointer, a larger
\* staticity gives a smaller pointer-induced displacement.
C5_StaticityWeakens ==
    \A i \in 1..Len(pushed) :
        (pushed[i].ran /\ LoggedDistance(i) > 0 /\ LoggedDistance(i) < MaxD)
            => \A s1, s2 \in StaticityValues :
                   s1 < s2 => PushMag2(i, s2) < PushMag2(i, s1)

\* Whole grid units of the displacement magnitude at a distance
StrengthUnits(distance, s) == PushStrength(distance, s) \div (maxDistance * InvPushFactor)

\* C6 as stated: the displacement magnitude is maximal at d = 0, strictly
\* decreases over [0, 200) and is zero for d >= 200.
C6_MaxAtZero ==
    \A i \in 1..Len(pushed) :
        pushed[i].ran =>
            LET d == LoggedDistance(i)
                s == pushed[i].s
            IN /\ d >= MaxD => (pushed[i].fx = 0 /\ pushed[i].fy = 0)
               /\ d = 0 => \A e \in 1..MaxD : PushStrength(0, s) >= PushStrength(e, s)
               /\ d + 1 < MaxD => PushStrength(d, s) > PushStrength(d + 1, s)

\* C6 amended: the displacement is zero at d = 0 and for d >= 200; over
\* 0 < d < 200 it is not zero in strength, strictly decreases as d
\* increases, and the displacement applied has that magnitude up to rounding.
C6_Falloff ==
    \A i \in 1..Len(pushed) :
        pushed[i].ran =>
            LET d == LoggedDistance(i)
                s == pushed[i].s
                m2 == pushed[i].fx * pushed[i].fx + pushed[i].fy * pushed[i].fy
                k == StrengthUnits(d, s)
            IN /\ (d = 0 \/ d >= MaxD) => (pushed[i].fx = 0 /\ pushed[i].fy = 0)
               /\ (0 < d /\ d < MaxD) =>
                    /\ PushStrength(d, s) > 0
                    /\ d + 1 < MaxD => PushStrength(d, s) > PushStrength(d + 1, s)
                    /\ \A j \in 1..Len(pushed) :
                         (pushed[j].ran /\ pushed[j].s = s /\ LoggedDistance(j) > d)
                             => PushStrength(d, s) > PushStrength(LoggedDistance(j), s)
                    /\ k >= 1 => (k - 1) * (k - 1) <= m2
                    /\ m2 <= 2 * (k + 1) * (k + 1)

\* One frame in which a particle on the pointer is not displaced, and
\* another within the radius is.
C6_Witness ==
    \E i, j \in 1..Len(pushed) :
        /\ pushed[i].ran /\ LoggedDistance(i) = 0
        /\ pushed[i].fx = 0 /\ pushed[i].fy = 0
        /\ pushed[j].ran /\ LoggedDistance(j) > 0 /\ LoggedDistance(j) < MaxD
        /\ pushed[j].fy # 0

\* C7: a particle at distance 0 < d < 200 from the pointer is not nearer to
\* the pointer after the pointer-interaction step than before it.
C7_MovesAway ==
    \A i \in 1..Len(pushed) :
        (pushed[i].ran /\ LoggedDistance(i) > 0 /\ LoggedDistance(i) < MaxD)
            => Dist2(particles[i].x, particles[i].y, pushed[i].mx, pushed[i].my)
                 >= pushed[i].dx * pushed[i].dx + pushed[i].dy * pushed[i].dy

\* A particle pushed strictly farther from a pointer state at the center
\* (0,0).
C7_Witness ==
    \E i \in 1..Len(pushed) :
        /\ pushed[i].ran /\ LoggedDistance(i) > 0 /\ LoggedDistance(i) < MaxD
        /\ pushed[i].mx = 0 /\ pushed[i].my = 0
        /\ Dist2(particles[i].x, particles[i].y, pushed[i].mx, pushed[i].my)
             > pushed[i].dx * pushed[i].dx + pushed[i].dy * pushed[i].dy

\* No frame has moved the pool since it was generated
Fresh == \A i \in 1..Len(pushed) : ~pushed[i].ran

\* C8: after a resize has regenerated the pool, the canvas has the size of
\* the container, the pool holds `quantity` particles and each lies within
\* -width/2 <= x <= width/2 and -height/2 <= y <= height/2 of that size.
C8_ResizeRegenerates ==
    (phase = "mounted" /\ context /\ Fresh) =>
        /\ canvas.w = container[1] /\ canvas.h = container[2]
        /\ Len(particles) = props.quantity
        /\ \A i \in 1..Len(particles) :
             /\ 2 * Abs(particles[i].x) <= container[1] * Scale
             /\ 2 * Abs(particles[i].y) <= container[2] * Scale

\* A pool of two regenerated for the small container after a frame had
\* moved the earlier pool.
C8_Witness ==
    /\ phase = "mounted" /\ context /\ Fresh
    /\ frames = 1
    /\ Len(particles) = 2
    /\ container = <<40, 30>>
    /\ canvas.w = 40

\* A step that changes the pointer state or delivers a pointer event: a move
\* sets the state to its offset when that is strictly inside the container
\* and leaves it as it was otherwise, a reset sets it to (0,0)
C9_Step ==
    (lastPtr' # lastPtr \/ mouse' # mouse) =>
        /\ lastPtr'.kind \in {"move", "reset"}
        /\ lastPtr'.kind = "move" =>
             mouse' = IF /\ 2 * lastPtr'.x < container[1] * Scale
                         /\ 2 * lastPtr'.x > -(container[1] * Scale)
                         /\ 2 * lastPtr'.y < container[2] * Scale
                         /\ 2 * lastPtr'.y > -(container[2] * Scale)
                      THEN [x |-> lastPtr'.x, y |-> lastPtr'.y]
                      ELSE mouse
        /\ lastPtr'.kind = "reset" => mouse' = Zero

\* C9: a mouse-move or touch-move sets the pointer state to its
\* center-relative offset (x, y) exactly when -w/2 < x < w/2 and
\* -h/2 < y < h/2 and leaves it unchanged otherwise; a mouse-leave or
\* touch-end sets it to (0,0).
C9_PointerTracking == [][C9_Step]_vars

\* A move outside the container has left a pointer state other than (0,0)
\* as it was.
C9_Witness ==
    /\ lastPtr.kind = "move" /\ ~lastPtr.inside
    /\ mouse # Zero
    /\ phase = "mounted"

\* C10 as stated: the pointer state is (0,0) when the most recent pointer
\* event was outside the container or a mouseleave or touchend, and the
\* offset of that event otherwise.
C10_ZeroWhenOutside ==
    mouse = IF lastPtr.kind = "move" /\ lastPtr.inside
            THEN [x |-> lastPtr.x, y |-> lastPtr.y]
            ELSE Zero

\* C10 amended: the pointer state is the last in-container offset observed
\* since the last mouseleave or touchend, and (0,0) when there is none; a
\* move outside the container does not reset it.
C10_LastObserved ==
    mouse = IF lastIn.seen THEN [x |-> lastIn.x, y |-> lastIn.y] ELSE Zero

\* The most recent event was a move outside the container and the pointer
\* state still is the in-container offset observed before it.
C10_Witness ==
    /\ lastPtr.kind = "move" /\ ~lastPtr.inside
    /\ lastIn.seen
    /\ mouse = [x |-> lastIn.x, y |-> lastIn.y]
    /\ mouse # Zero

\* C11 (as stated): a step taken while the canvas or its 2D context is
\* unavailable (initialization, resize or frame callback) changes neither
\* the particle pool nor the canvas size.
C11_Step ==
    (~context' \/ ~canvas'.present) =>
        /\ particles' = particles
        /\ canvas'.w = canvas.w
        /\ canvas'.h = canvas.h

C11_NoOpWhenUnavailable == [][C11_Step]_vars

\* C12 (as stated): after a setup that found no context, the next resize, or
\* the next re-run of the effect that obtains a context, completes the
\* setup: the canvas has the container's size and the pool holds `quantity`
\* particles, which the re-run effect's call of animate draws.
C12_Step ==
    (phase = "mounted" /\ ~context) =>
        /\ container' # container =>
             /\ canvas'.w = container'[1] /\ canvas'.h = container'[2]
             /\ Len(particles') = props.quantity
        /\ (raf' # raf /\ context') =>
             /\ canvas'.w = container[1] /\ canvas'.h = container[2]
             /\ Len(particles') = props'.quantity
             /\ \A i \in 1..Len(pushed') : pushed'[i].arcs = 1

C12_NextTriggerCompletes == [][C12_Step]_vars

\* C13: once a pool has been generated every particle of it has the color
\* of the active theme, rgba(200, 200, 200, 0.5) for dark and
\* rgba(150, 50, 75, 0.3) otherwise, after any frames and any theme change;
\* a circle a frame draws is filled with that color.
C13_ThemeColor ==
    phase # "new" =>
        /\ \A i \in 1..Len(particles) :
             particles[i].color = IF props.theme = "dark" THEN "rgba(200, 200, 200, 0.5)"
                                  ELSE "rgba(150, 50, 75, 0.3)"
        /\ \A i \in 1..Len(pushed) :
             pushed[i].ran => pushed[i].fill = particles[i].color

\* A pool generated under the light theme, after a theme change, and moved
\* by a frame.
C13_Witness ==
    /\ phase = "mounted"
    /\ props.theme = "light"
    /\ frames >= 1
    /\ Len(particles) = 2
    /\ pushed[2].ran
    /\ particles[2].color = lightColor

\* A step in which a frame callback draws leaves the number of pending
\* callbacks of each loop as it was, and a mounted component has a callback
\* pending
C14_Step ==
    /\ frames' # frames => raf' = raf
    /\ phase' = "mounted" => Pending' >= 1

\* C14: every run of the frame callback schedules exactly one next frame
\* callback, with or without canvas and context, so that a frame callback is
\* pending whenever the animator is mounted.
C14_AlwaysPending == [][C14_Step]_vars

\* Mounted with a callback pending after a frame callback has drawn.
C14_Witness ==
    /\ phase = "mounted"
    /\ Pending >= 1
    /\ frames >= 1
    /\ context

\* A step in which animate runs with canvas and context: a frame callback,
\* or the call at the end of the effect
AnimateRan ==
    frames' # frames \/ (raf' # raf /\ context' /\ canvas'.present)

C15_Step ==
    AnimateRan =>
        /\ Len(pushed') = Len(particles')
        /\ Len(particles') = Len(particles) \/ raf' # raf
        /\ \A i \in 1..Len(pushed') :
             /\ pushed'[i].arcs = 1
             /\ pushed'[i].cx = Half(canvas'.w) + particles'[i].x
             /\ pushed'[i].cy = Half(canvas'.h) + particles'[i].y
        /\ props'.quantity = 0 => pushed' = <<>>

\* C15: a run of animate with canvas and context draws exactly one circle
\* per particle of the pool, at the particle's position; with quantity = 0
\* the pool is empty and nothing is drawn.
C15_OneCirclePerParticle == [][C15_Step]_vars

\* A frame callback has drawn both particles of a pool of two.
C15_Witness ==
    /\ frames >= 1
    /\ Len(particles) = 2
    /\ \A i \in 1..2 : pushed[i].ran /\ pushed[i].arcs = 1

\* C20: at most one frame loop of the animator is pending at any time.
C20_SingleLoop == Pending <= 1

\* C16: a step in which a provider's trackEvent or trackPageView is invoked
\* leaves the service initialized, enabled and with consent given: the
\* service's state at the moment of the invocation.
C16_Step ==
    tracked'.count # tracked.count =>
        analytics'.initialized /\ analytics'.enabled /\ analytics'.consentGiven

C16_TrackOnlyWhenAllowed == [][C16_Step]_vars

\* Two providers have each received a call from a service that is
\* initialized, enabled and has consent.
C16_Witness ==
    /\ tracked.count >= 2
    /\ analytics.providers = 2
    /\ analytics.initialized /\ analytics.enabled /\ analytics.consentGiven

\* C17: from setEnabled(false) until setEnabled(true) no call reaches a
\* provider, whatever is called in between.
C17_Step ==
    (tracked.optOut /\ tracked'.optOut) => tracked'.count = tracked.count

C17_DisabledStaysSilent == [][C17_Step]_vars

\* C18: with no robots prop the robots meta tag is 'noindex, nofollow' when
\* noIndex is true and 'index, follow' when it is false or absent.
C18_NoIndexRobots ==
    (seo.rendered /\ "robots" \notin seo.props.given) =>
        seo.metaRobots = IF "noIndex" \in seo.props.given /\ seo.props.noIndex
                         THEN "noindex, nofollow"
                         ELSE "index, follow"

\* C19: checkMobile never runs after the component using useIsMobile has
\* unmounted.
C19_NoCheckAfterUnmount == ~lateCheck

\* C21: a frame changes a particle's velocity by at most the sign of a
\* component: after a run of animate |vx| and |vy| are what they were before
\* it, whatever the pointer step did to the position.
C21_SpeedConstant ==
    \A i \in 1..Len(pushed) :
        pushed[i].ran =>
            /\ Abs(particles[i].vx) = Abs(pushed[i].vx0)
            /\ Abs(particles[i].vy) = Abs(pushed[i].vy0)

\* A particle displaced by the pointer step whose vx the bounce step
\* inverted in the same frame.
C21_Witness ==
    \E i \in 1..Len(pushed) :
        /\ pushed[i].ran
        /\ pushed[i].vx0 # 0
        /\ particles[i].vx = -pushed[i].vx0
        /\ pushed[i].fx # 0

\* C23: a particle that is exactly on the pointer in the pointer step of a
\* frame (dx = 0 and dy = 0) is not displaced by it: it stays on the pointer
\* position.
C23_NoPushOnPointer ==
    \A i \in 1..Len(pushed) :
        (pushed[i].ran /\ pushed[i].dx = 0 /\ pushed[i].dy = 0) =>
            /\ pushed[i].fx = 0 /\ pushed[i].fy = 0
            /\ particles[i].x = pushed[i].mx
            /\ particles[i].y = pushed[i].my

\* The effect's call of animate and a frame callback have run on a particle
\* lying on the pointer, which is still where it was.
C23_Witness ==
    \E i \in 1..Len(pushed) :
        /\ frames >= 1
        /\ pushed[i].ran /\ pushed[i].dx = 0 /\ pushed[i].dy = 0
        /\ particles[i].x = mouse.x /\ particles[i].y = mouse.y

\* C28: the pointer state is (0,0) or lies strictly inside the current
\* bounds of the container.
C28_PointerInsideContainer ==
    mouse = Zero \/ Inside(mouse.x, mouse.y, container[1], container[2])

\* C29: a step taken after unmount, a frame callback among them, leaves the
\* pool and what has been drawn as they were.
C29_Step ==
    phase = "unmounted" => (particles' = particles /\ pushed' = pushed /\ frames' = frames)

C29_NoDrawAfterUnmount == [][C29_Step]_vars

\* Unmounted with a pool of two drawn particles and a frame callback still
\* pending; the callback leaves this state as it is.
C29_Witness ==
    /\ phase = "unmounted"
    /\ Pending >= 1
    /\ context
    /\ Len(particles) = 2
    /\ \A i \in 1..2 : pushed[i].ran

\* C25: a mounted animator has exactly one handler registered for each of
\* resize, mousemove, touchmove, touchend and mouseleave, however often its
\* effect has re-run; before mount and after unmount it has none, so that
\* no such event reaches it.
C25_OneHandlerEach ==
    \A e \in EventTypes :
        listeners[e] = IF phase = "mounted" THEN 1 ELSE 0

\* Mounted, with one handler per event after the effect has re-run and the
\* pointer has moved.
C25_Witness ==
    /\ phase = "mounted"
    /\ Pending >= 2
    /\ mouse # Zero
    /\ \A e \in EventTypes : listeners[e] = 1

\* Indices of the particles of a pool
PoolIndices == QuantityValues \ {0}

\* Particle i is drawn by the frames, and the pointer step leaves it alone in
\* this frame and the next: it is farther than maxDistance plus its own
\* speed from the pointer state
Undisturbed(i) ==
    /\ phase = "mounted" /\ CanDraw(context, canvas)
    /\ i <= Len(particles)
    /\ Sqrt(Dist2(particles[i].x, particles[i].y, mouse.x, mouse.y)) >= MaxD + 4 * Scale

BeyondX(i) == i <= Len(particles) /\ Beyond(particles[i].x, particles[i].size, canvas.w)
BeyondY(i) == i <= Len(particles) /\ Beyond(particles[i].y, particles[i].size, canvas.h)

\* C22: a particle the pointer does not displace, whose leading edge is
\* beyond a container edge in some frame, has that edge back within the
\* container in some later frame.
C22_BouncesBack ==
    \A i \in PoolIndices :
        /\ (Undisturbed(i) /\ BeyondX(i)) ~> ~BeyondX(i)
        /\ (Undisturbed(i) /\ BeyondY(i)) ~> ~BeyondY(i)

\* C26: a submit calls emailjs.send only when the four fields are non-empty,
\* the email is well-formed, no successful submission was recorded in the
\* last 60 seconds and EmailJS is ready; otherwise nothing is sent and
\* formStatus and the form fields stay as they were.
C26_SendOnlyWhenChecked ==
    [][mail'.attempts # mail.attempts =>
        LET f == contact.formData
            valid == /\ f.name # "" /\ f.subject # "" /\ f.message # ""
                     /\ f.email # <<>> /\ IsEmail(f.email)
            recent == /\ contact.lastFormSubmission.stored
                      /\ NowMs - contact.lastFormSubmission.at < RateLimitMs
            ok == valid /\ ~recent /\ contact.emailjsReady
        IN /\ mail'.sent # mail.sent => ok
           /\ ~ok => /\ mail'.sent = mail.sent
                      /\ contact'.formStatus = contact.formStatus
                      /\ contact'.formData = contact.formData]_vars

\* C26 witness: after a send, a valid submit was turned down by the rate
\* limit
C26_Witness ==
    /\ mail.sent >= 1
    /\ mail.last = "limited"
    /\ contact.emailjsReady
    /\ contact.formStatus # "submitting"

\* C27: two calls of emailjs.send are at least 60 seconds apart, whether
\* the earlier call succeeded or failed.
C27_OneSendPerWindow ==
    mail.sent >= 2 => mail.lastAt - mail.prevAt >= RateLimitMs

\* C30: while the menu is mounted, each of highContrast, highlightLinks and
\* readableFont is true exactly when the document root carries its class.
C30_StateMatchesRoot ==
    a11y.mounted =>
        \A n \in ToggleNames :
            a11y.state[n] <=> ClassOf[n] \in a11y.root.classes

====
